---- MODULE Spec2Model ----
(***************************************************************************)
(* Model of src/04-date-tasks.js: five stateless date/time functions.      *)
(*                                                                         *)
(* A JavaScript time value (milliseconds since 1970-01-01T00:00:00Z) does  *)
(* not fit a 32-bit integer, so a time value is kept the way ECMAScript    *)
(* itself splits it: Day(t) and TimeWithinDay(t), plus the NaN flag of an  *)
(* Invalid Date.  A JavaScript string is a sequence of one-character       *)
(* strings.  An angle is kept as a whole number of units of pi/360.        *)
(***************************************************************************)
EXTENDS Integers, Sequences, FiniteSets, TLC

VARIABLES pc, fn, args, result, hostTZ

vars == <<pc, fn, args, result, hostTZ>>

(***************************************************************************)
(* Bounds of the model.                                                    *)
(***************************************************************************)
\* spans of 0..MaxHours whole hours are enumerated besides the sampled long ones
MaxHours == 1
\* calendar years within MaxYearOff of each sampled century/leap year
MaxYearOff == 2

(***************************************************************************)
(* ECMAScript Date internals used by the code (Date, Date.UTC, getters).   *)
(***************************************************************************)
msPerDay == 86400000
msPerHour == 3600000
msPerMinute == 60000
msPerSecond == 1000

\* a finite time value: whole days since the epoch and milliseconds within the day
TV(day, ms) == [nan |-> FALSE, day |-> day, ms |-> ms]
\* the time value of an Invalid Date, and the number NaN
NaN == [nan |-> TRUE, day |-> 0, ms |-> 0]

\* a time value from days and a (possibly negative or overflowing) ms-in-day count
Normalize(day, ms) == TV(day + (ms \div msPerDay), ms % msPerDay)

\* a JavaScript number that is an integer, or NaN
Num(v) == [nan |-> FALSE, val |-> v]
NumNaN == [nan |-> TRUE, val |-> 0]

\* MakeDay(year, month, 1): days from the epoch to the first of a month (month 0..11),
\* proleptic Gregorian calendar
DaysFromCivil(y, m, d) ==
  LET yy  == IF m <= 1 THEN y - 1 ELSE y
      era == yy \div 400
      yoe == yy - era * 400
      mp  == (m + 10) % 12
      doy == (153 * mp + 2) \div 5 + d - 1
      doe == yoe * 365 + yoe \div 4 - yoe \div 100 + doy
  IN  era * 146097 + doe - 719468

\* YearFromTime, MonthFromTime, DateFromTime of a day number
CivilFromDays(z) ==
  LET zz  == z + 719468
      era == zz \div 146097
      doe == zz - era * 146097
      yoe == (doe - doe \div 1460 + doe \div 36524 - doe \div 146096) \div 365
      doy == doe - (365 * yoe + yoe \div 4 - yoe \div 100)
      mp  == (5 * doy + 2) \div 153
      d   == doy - (153 * mp + 2) \div 5 + 1
      m   == IF mp < 10 THEN mp + 2 ELSE mp - 10
      y   == yoe + era * 400 + (IF m <= 1 THEN 1 ELSE 0)
  IN  [year |-> y, month |-> m, date |-> d]

\* LocalTime(t): the host's offset from UTC (minutes east) added to a time value
LocalTime(t, tz) == Normalize(t.day, t.ms + tz * msPerMinute)

\* the UTC time value of local calendar components (the inverse of LocalTime)
UTCOfLocal(t, tz) == Normalize(t.day, t.ms - tz * msPerMinute)

getUTCFullYear(tm) == IF tm.nan THEN NumNaN ELSE Num(CivilFromDays(tm.day).year)
getUTCMonth(tm)    == IF tm.nan THEN NumNaN ELSE Num(CivilFromDays(tm.day).month)
getUTCDate(tm)     == IF tm.nan THEN NumNaN ELSE Num(CivilFromDays(tm.day).date)
getUTCHours(tm)    == IF tm.nan THEN NumNaN ELSE Num(tm.ms \div msPerHour)
getUTCMinutes(tm)  == IF tm.nan THEN NumNaN ELSE Num((tm.ms \div msPerMinute) % 60)
getUTCSeconds(tm)  == IF tm.nan THEN NumNaN ELSE Num((tm.ms \div msPerSecond) % 60)

\* date.getFullYear(): the calendar year in the host's local time
getFullYear(date, tz) == CivilFromDays(LocalTime(date, tz).day).year

\* Date.UTC(year, month, date, hours, minutes, seconds): NaN if an argument is NaN;
\* a year of 0..99 is taken as 1900 + year
DateUTC(year, month, date, hours, minutes, seconds) ==
  IF year.nan \/ month.nan \/ date.nan \/ hours.nan \/ minutes.nan \/ seconds.nan
  THEN NaN
  ELSE LET yr == IF 0 <= year.val /\ year.val <= 99 THEN 1900 + year.val ELSE year.val
       IN  Normalize(DaysFromCivil(yr, month.val, 1) + date.val - 1,
                     hours.val * msPerHour + minutes.val * msPerMinute
                       + seconds.val * msPerSecond)

(***************************************************************************)
(* Date strings.  A string the engine's date parser recognises is kept as  *)
(* what the parser reads from it: the calendar components and the zone     *)
(* offset (minutes east of UTC), or no zone (then the host's local zone    *)
(* applies).  Any other string is kept as itself.                          *)
(***************************************************************************)
DateString(y, mo, d, h, mi, s, ms, hasTZ, tz) ==
  [recognised |-> TRUE, year |-> y, month |-> mo, date |-> d, hours |-> h,
   minutes |-> mi, seconds |-> s, ms |-> ms, hasTZ |-> hasTZ, tz |-> tz]

Unrecognised(text) == [recognised |-> FALSE, text |-> text]

\* new Date(value) for a string: the instant it denotes, or an Invalid Date
NewDate(value, host) ==
  IF ~value.recognised THEN NaN
  ELSE UTCOfLocal(
         Normalize(DaysFromCivil(value.year, value.month, value.date),
                   value.hours * msPerHour + value.minutes * msPerMinute
                     + value.seconds * msPerSecond + value.ms),
         IF value.hasTZ THEN value.tz ELSE host)

(***************************************************************************)
(* parseDataFromRfc2822, parseDataFromIso8601                              *)
(***************************************************************************)
\* parseDataFromRfc2822 with every NaN component defaulted to 0 (mutant)
parseDataFromRfc2822_Defaulted(value, host) ==
  LET tm == NewDate(value, host)
      or0(n) == IF n.nan THEN Num(0) ELSE n
  IN  DateUTC(or0(getUTCFullYear(tm)), or0(getUTCMonth(tm)), or0(getUTCDate(tm)),
              or0(getUTCHours(tm)), or0(getUTCMinutes(tm)), or0(getUTCSeconds(tm)))

parseDataFromRfc2822(value, host) ==
  LET tm == NewDate(value, host)
  IN  DateUTC(getUTCFullYear(tm), getUTCMonth(tm), getUTCDate(tm),
              getUTCHours(tm), getUTCMinutes(tm), getUTCSeconds(tm))

parseDataFromIso8601(value, host) == NewDate(value, host)

(***************************************************************************)
(* isLeapYear                                                              *)
(***************************************************************************)
\* the JavaScript remainder a % b for b > 0: it takes the sign of the dividend
JSRem(a, b) == IF a >= 0 THEN a % b ELSE 0 - ((0 - a) % b)

\* isLeapYear without the century exception (mutant)
isLeapYear_NoCentury(date, host) ==
  LET year == getFullYear(date, host)
  IN  (JSRem(year, 400) = 0) \/ (JSRem(year, 4) = 0)

isLeapYear(date, host) ==
  LET year == getFullYear(date, host)
  IN  (JSRem(year, 400) = 0) \/ (JSRem(year, 100) # 0 /\ JSRem(year, 4) = 0)

(***************************************************************************)
(* JavaScript strings and number/string conversions used by                *)
(* timeSpanToString                                                        *)
(***************************************************************************)
Digits == <<"0", "1", "2", "3", "4", "5", "6", "7", "8", "9">>

DigitChar(d) == Digits[d + 1]

CharDigit(c) == CHOOSE d \in 0..9 : Digits[d + 1] = c

IsDigit(c) == \E d \in 0..9 : Digits[d + 1] = c

RECURSIVE NatToString(_)
NatToString(n) ==
  IF n < 10 THEN <<DigitChar(n)>>
  ELSE NatToString(n \div 10) \o <<DigitChar(n % 10)>>

\* String(n) of an integer n, as a template literal ${n} prints it (-0 prints "0")
NumberToString(n) == IF n < 0 THEN <<"-">> \o NatToString(0 - n) ELSE NatToString(n)

RECURSIVE DigitsToNat(_)
DigitsToNat(s) ==
  IF s = <<>> THEN 0
  ELSE 10 * DigitsToNat(SubSeq(s, 1, Len(s) - 1)) + CharDigit(s[Len(s)])

\* Number(s) of a decimal string with an optional minus sign ("-0" is -0, i.e. 0)
StringToNumber(s) ==
  IF s # <<>> /\ s[1] = "-" THEN 0 - DigitsToNat(Tail(s)) ELSE DigitsToNat(s)

\* (num / den).toFixed(0) for den > 0: the nearest integer, a tie taking the one of
\* larger magnitude; a negative value keeps its minus sign even when it rounds to 0
toFixed0(num, den) ==
  IF num < 0
  THEN <<"-">> \o NatToString((2 * (0 - num) + den) \div (2 * den))
  ELSE NatToString((2 * num + den) \div (2 * den))

\* a JavaScript value that is a number, or a string holding a number
JSNumber(n) == [num |-> n, str |-> NumberToString(n)]
JSString(s) == [num |-> StringToNumber(s), str |-> s]

(***************************************************************************)
(* timeSpanToString                                                        *)
(***************************************************************************)
\* endDate - startDate: the difference of two time values in milliseconds
DateDiff(endDate, startDate) ==
  (endDate.day - startDate.day) * msPerDay + (endDate.ms - startDate.ms)

\* addZeros with el <= 10 for el < 10 (mutant)
addZeros_Lte(el) == IF el.num <= 10 THEN <<"0">> \o el.str ELSE el.str

\* const addZeros = (el) => (el < 10 ? `0${el}` : el)
addZeros(el) == IF el.num < 10 THEN <<"0">> \o el.str ELSE el.str

\* the locals of timeSpanToString: hours is a string, the others are numbers
timeSpanFields(startDate, endDate) ==
  LET diff     == DateDiff(endDate, startDate)
      miliSecs == JSRem(diff, 1000)
      allSecs  == (diff - miliSecs) \div 1000
      secs     == IF allSecs < 60 THEN allSecs
                  ELSE allSecs - StringToNumber(toFixed0(allSecs, 60)) * 60
      allMins  == (allSecs - secs) \div 60
      mins     == IF allMins < 60 THEN allMins
                  ELSE allMins - StringToNumber(toFixed0(allMins, 60)) * 60
      hours    == toFixed0(allSecs - mins * 60, 3600)
  IN  [hours |-> hours, mins |-> mins, secs |-> secs, miliSecs |-> miliSecs]

timeSpanToString(startDate, endDate) ==
  LET f  == timeSpanFields(startDate, endDate)
      ms == IF f.miliSecs < 100
            THEN (IF f.miliSecs < 10
                  THEN <<"0", "0">> \o NumberToString(f.miliSecs)
                  ELSE <<"0">> \o NumberToString(f.miliSecs))
            ELSE NumberToString(f.miliSecs)
  IN  addZeros(JSString(f.hours)) \o <<":">> \o addZeros(JSNumber(f.mins))
        \o <<":">> \o addZeros(JSNumber(f.secs)) \o <<".">> \o ms

(***************************************************************************)
(* angleBetweenClockHands: the result in units of pi/360, so that pi is    *)
(* 360 and 2*pi is 720                                                     *)
(***************************************************************************)
Abs(x) == IF x < 0 THEN 0 - x ELSE x

\* angleBetweenClockHands returning the raw angle, never 2*pi - angle (mutant)
angleBetweenClockHands_NoReflection(date) ==
  LET h0    == getUTCHours(date).val
      m     == getUTCMinutes(date).val
      h     == IF h0 > 12 THEN h0 % 12 ELSE h0
  IN  Abs(60 * h - 11 * m)

\* angleBetweenClockHands reducing the hour by h - 12 only when h > 13 (mutant)
angleBetweenClockHands_LateReduce(date) ==
  LET h0    == getUTCHours(date).val
      m     == getUTCMinutes(date).val
      h     == IF h0 > 13 THEN h0 % 12 ELSE h0
      angle == Abs(60 * h - 11 * m)
  IN  IF angle > 360 THEN 720 - angle ELSE angle

angleBetweenClockHands(date) ==
  LET h0    == getUTCHours(date).val
      m     == getUTCMinutes(date).val
      h     == IF h0 > 12 THEN h0 % 12 ELSE h0
      angle == Abs(60 * h - 11 * m)
  IN  IF angle > 360 THEN 720 - angle ELSE angle

(***************************************************************************)
(* The inputs the functions are called with.                               *)
(***************************************************************************)
\* the host's time zone, in minutes east of UTC
HostOffsets == {-720, 0, 840}

\* the time value of UTC calendar components
MakeTV(y, mo, d, h, mi, s, ms) ==
  Normalize(DaysFromCivil(y, mo, d),
            h * msPerHour + mi * msPerMinute + s * msPerSecond + ms)

\* timeSpanToString: a start date and a signed span added to it
StartDates == {MakeTV(2000, 1, 1, 10, 0, 0, 0), MakeTV(1969, 11, 31, 23, 59, 59, 500)}
SpanHours == (0..MaxHours) \cup {5, 24, 26, 100}
SpanMinutes == {0, 1, 20, 29, 30, 45, 59}
SpanSeconds == {0, 1, 10, 20, 29, 30, 59}
SpanMillis == {0, 7, 10, 99, 100, 250, 453, 999}
Spans ==
  {sign * (h * msPerHour + m * msPerMinute + s * msPerSecond + ms) :
     sign \in {-1, 1}, h \in SpanHours, m \in SpanMinutes, s \in SpanSeconds,
     ms \in SpanMillis}

\* angleBetweenClockHands: every hour and minute of two days
AngleDays == {<<1969, 11, 31>>, <<2016, 3, 5>>}
AngleInputs ==
  {[year |-> d[1], month |-> d[2], date |-> d[3], hours |-> h, minutes |-> m] :
     d \in AngleDays, h \in 0..23, m \in 0..59}

\* isLeapYear: local calendar dates in years around sampled (century, leap, negative) years
LeapBaseYears == {-400, -100, -4, 0, 100, 1900, 2000, 2012}
LeapYears == {b + k : b \in LeapBaseYears, k \in (0 - MaxYearOff)..MaxYearOff}
LeapInputs ==
  {[year |-> y, month |-> md[1], date |-> md[2], hours |-> h] :
     y \in LeapYears, md \in {<<0, 1>>, <<1, 28>>, <<11, 31>>}, h \in {0, 23}}

\* the time value of a local calendar date on a host
LocalDate(c, host) ==
  UTCOfLocal(MakeTV(c.year, c.month, c.date, c.hours, 0, 0, 0), host)

\* the parsers: recognised date strings and unrecognised text
ParseYears == {-1, 0, 50, 99, 100, 1900, 1969, 1970, 1995, 2016}
ParseZones == {<<TRUE, 0>>, <<TRUE, 60>>, <<TRUE, -720>>, <<FALSE, 0>>}
DateStrings ==
  {DateString(y, md[1], md[2], h, mi, s, ms, z[1], z[2]) :
     y \in ParseYears, md \in {<<0, 1>>, <<11, 31>>}, h \in {0, 23}, mi \in {0, 48},
     s \in {0, 59}, ms \in {0, 500}, z \in ParseZones}
BadStrings == {Unrecognised(""), Unrecognised("random text"), Unrecognised("not a date")}
ParseInputs == DateStrings \cup BadStrings

(***************************************************************************)
(* The state machine: the module holds no state; a call takes its          *)
(* arguments and leaves its result, and Return forgets both.               *)
(***************************************************************************)
Init ==
  /\ pc = "idle"
  /\ fn = "none"
  /\ args = <<>>
  /\ result = <<>>
  /\ hostTZ \in HostOffsets

CallParseDataFromRfc2822 ==
  /\ pc = "idle"
  /\ \E value \in ParseInputs :
       /\ args' = [value |-> value]
       /\ result' = parseDataFromRfc2822(value, hostTZ)
  /\ fn' = "parseDataFromRfc2822"
  /\ pc' = "done"
  /\ UNCHANGED hostTZ

CallParseDataFromIso8601 ==
  /\ pc = "idle"
  /\ \E value \in ParseInputs :
       /\ args' = [value |-> value]
       /\ result' = parseDataFromIso8601(value, hostTZ)
  /\ fn' = "parseDataFromIso8601"
  /\ pc' = "done"
  /\ UNCHANGED hostTZ

CallIsLeapYear ==
  /\ pc = "idle"
  /\ \E c \in LeapInputs :
       /\ args' = [date |-> LocalDate(c, hostTZ), civil |-> c]
       /\ result' = isLeapYear(LocalDate(c, hostTZ), hostTZ)
  /\ fn' = "isLeapYear"
  /\ pc' = "done"
  /\ UNCHANGED hostTZ

CallTimeSpanToString ==
  /\ pc = "idle"
  /\ \E startDate \in StartDates, span \in Spans :
       LET endDate == Normalize(startDate.day, startDate.ms + span)
       IN  /\ args' = [startDate |-> startDate, endDate |-> endDate]
           /\ result' = timeSpanToString(startDate, endDate)
  /\ fn' = "timeSpanToString"
  /\ pc' = "done"
  /\ UNCHANGED hostTZ

CallAngleBetweenClockHands ==
  /\ pc = "idle"
  /\ \E c \in AngleInputs :
       LET date == MakeTV(c.year, c.month, c.date, c.hours, c.minutes, 0, 0)
       IN  /\ args' = [date |-> date, civil |-> c]
           /\ result' = angleBetweenClockHands(date)
  /\ fn' = "angleBetweenClockHands"
  /\ pc' = "done"
  /\ UNCHANGED hostTZ

Return ==
  /\ pc = "done"
  /\ pc' = "idle"
  /\ fn' = "none"
  /\ args' = <<>>
  /\ result' = <<>>
  /\ UNCHANGED hostTZ

Next ==
  \/ CallParseDataFromRfc2822
  \/ CallParseDataFromIso8601
  \/ CallIsLeapYear
  \/ CallTimeSpanToString
  \/ CallAngleBetweenClockHands
  \/ Return

Spec == Init /\ [][Next]_vars

(***************************************************************************)
(* Notions the properties are stated with.                                 *)
(***************************************************************************)
Done(f) == pc = "done" /\ fn = f

\* the signed span of the timeSpanToString call in the current state
SpanOf == DateDiff(args.endDate, args.startDate)

Positions(s, c) == {i \in 1..Len(s) : s[i] = c}
SetMin(S) == CHOOSE x \in S : \A y \in S : x <= y
SetMax(S) == CHOOSE x \in S : \A y \in S : x >= y

\* the four fields of a string h:m:s.x, as text
HoursText(s)  == SubSeq(s, 1, SetMin(Positions(s, ":")) - 1)
MinsText(s)   == SubSeq(s, SetMin(Positions(s, ":")) + 1, SetMax(Positions(s, ":")) - 1)
SecsText(s)   == SubSeq(s, SetMax(Positions(s, ":")) + 1, SetMin(Positions(s, ".")) - 1)
MillisText(s) == SubSeq(s, SetMin(Positions(s, ".")) + 1, Len(s))

IsNumeral(t) == t # <<>> /\ \A i \in 1..Len(t) : IsDigit(t[i])
Denotes(t, n) == IsNumeral(t) /\ DigitsToNat(t) = n

\* n >= 0 in decimal, zero-padded to at least w digits
Pad(n, w) ==
  LET t == NatToString(n)
  IN  IF Len(t) >= w THEN t ELSE [i \in 1..(w - Len(t)) |-> "0"] \o t

\* the zero-padded floor/modulo decomposition of a span d >= 0
FloorModString(d) ==
  Pad(d \div msPerHour, 2) \o <<":">> \o Pad((d \div msPerMinute) % 60, 2) \o <<":">>
    \o Pad((d \div msPerSecond) % 60, 2) \o <<".">> \o Pad(d % msPerSecond, 3)

\* the Gregorian rule on a year, with the mathematical (floor) modulus
GregorianLeap(y) == (y % 400 = 0) \/ (y % 100 # 0 /\ y % 4 = 0)

\* the reference clock angle in units of pi/360, for h12 in 0..11
ReferenceAngle(h12, m) ==
  LET a == Abs(60 * h12 - 11 * m) IN IF a <= 360 THEN a ELSE 720 - a

(***************************************************************************)
(* The properties.                                                         *)
(***************************************************************************)
\* C1: timeSpanToString(a, b) returns the same string as timeSpanToString(b, a) for
\* all date values a and b.
C1_SwapSymmetric ==
  Done("timeSpanToString") =>
    result = timeSpanToString(args.endDate, args.startDate)

\* C2: for every non-negative difference end - start, the four printed fields are
\* the floor/modulo decomposition: ms = d mod 1000, s = floor(d/1000) mod 60,
\* m = floor(d/60000) mod 60, h = floor(d/3600000).
C2_FieldsAreFloorMod ==
  (Done("timeSpanToString") /\ SpanOf >= 0) =>
    /\ Denotes(MillisText(result), SpanOf % 1000)
    /\ Denotes(SecsText(result), (SpanOf \div 1000) % 60)
    /\ Denotes(MinsText(result), (SpanOf \div 60000) % 60)
    /\ Denotes(HoursText(result), SpanOf \div 3600000)

\* C3: for every pair of dates the returned string has the shape HH:mm:ss.sss:
\* hours of at least two digits, minutes and seconds of exactly two digits in
\* 00..59, milliseconds of exactly three digits, and no minus sign anywhere.
C3_ShapeHHmmssSSS ==
  Done("timeSpanToString") =>
    /\ Positions(result, "-") = {}
    /\ Cardinality(Positions(result, ":")) = 2
    /\ Cardinality(Positions(result, ".")) = 1
    /\ IsNumeral(HoursText(result)) /\ Len(HoursText(result)) >= 2
    /\ IsNumeral(MinsText(result)) /\ Len(MinsText(result)) = 2
    /\ DigitsToNat(MinsText(result)) <= 59
    /\ IsNumeral(SecsText(result)) /\ Len(SecsText(result)) = 2
    /\ DigitsToNat(SecsText(result)) <= 59
    /\ IsNumeral(MillisText(result)) /\ Len(MillisText(result)) = 3

\* C4: for every span of 24 hours or more the hours field is the total number of
\* whole hours floor(d/3600000), not reduced modulo 24, and the minutes, seconds
\* and milliseconds fields are the remainder of the span within the hour.
C4_NoDayWrap ==
  (Done("timeSpanToString") /\ SpanOf >= 24 * msPerHour) =>
    LET inHour == SpanOf % msPerHour
    IN  /\ Denotes(HoursText(result), SpanOf \div msPerHour)
        /\ Denotes(MinsText(result), inHour \div msPerMinute)
        /\ Denotes(SecsText(result), (inHour % msPerMinute) \div msPerSecond)
        /\ Denotes(MillisText(result), inHour % msPerSecond)

\* C5: for every UTC hour 0..23 and minute 0..59 the angle returned by
\* angleBetweenClockHands lies in [0, pi]: in units of pi/360 it is in 0..360.
C5_AngleInRange ==
  Done("angleBetweenClockHands") => result \in 0..360

\* a time whose raw angle exceeds pi (11:00, raw 660 units) has been answered
C5_Witness ==
  /\ Done("angleBetweenClockHands")
  /\ args.civil.hours = 11 /\ args.civil.minutes = 0
  /\ result = 60

\* C6: isLeapYear of a date whose (local) calendar year is Y is true exactly when
\* Y mod 400 = 0 or (Y mod 100 # 0 and Y mod 4 = 0), also for negative and
\* century years, and every other date of the same year gives the same result.
C6_LeapYearRule ==
  Done("isLeapYear") =>
    /\ result = GregorianLeap(args.civil.year)
    /\ \A c \in LeapInputs :
         c.year = args.civil.year =>
           isLeapYear(LocalDate(c, hostTZ), hostTZ) = result

\* a negative century year divisible by 400, asked on its last day, is a leap year
C6_Witness ==
  /\ Done("isLeapYear")
  /\ args.civil.year = -400 /\ args.civil.month = 11 /\ args.civil.hours = 23
  /\ result = TRUE

\* C7: for every date string recognised as a whole-second instant t, whatever its
\* zone offset and year (also before 1970 and below 100), parseDataFromRfc2822
\* returns exactly the time value of t.
C7_RfcReturnsInstant ==
  (Done("parseDataFromRfc2822") /\ args.value.recognised /\ args.value.ms = 0) =>
    result = NewDate(args.value, hostTZ)

\* C8: on a string that is not recognised, parseDataFromRfc2822 returns NaN and
\* parseDataFromIso8601 returns an Invalid Date, never a finite value.
C8_UnrecognisedFails ==
  ((Done("parseDataFromRfc2822") \/ Done("parseDataFromIso8601"))
     /\ ~args.value.recognised) =>
    result = NaN

\* random text has been given to parseDataFromRfc2822
C8_Witness ==
  /\ Done("parseDataFromRfc2822")
  /\ args.value = Unrecognised("random text")
  /\ result.nan

\* C9: for every UTC hour h in 0..23 and minute m, angleBetweenClockHands returns
\* the reference formula with h12 = h mod 12, also at h = 12 where the code keeps
\* h as 12, so the time twelve hours later gives the same angle.
C9_AngleIsReference ==
  Done("angleBetweenClockHands") =>
    /\ result = ReferenceAngle(args.civil.hours % 12, args.civil.minutes)
    /\ angleBetweenClockHands(Normalize(args.date.day, args.date.ms + 12 * msPerHour))
         = result

\* 12:30, where the code computes with h = 12, has been answered with 165 degrees
C9_Witness ==
  /\ Done("angleBetweenClockHands")
  /\ args.civil.hours = 12 /\ args.civil.minutes = 30
  /\ result = 330

\* C10: for every non-negative span whose seconds within the minute are below 30
\* (or whose total is under 60 seconds) and whose minutes within the hour are
\* below 30 (or whose total is under 60 minutes), timeSpanToString returns exactly
\* the zero-padded floor/modulo decomposition of the span.
C10_LowHalvesExact ==
  (/\ Done("timeSpanToString")
   /\ SpanOf >= 0
   /\ ((SpanOf \div msPerSecond) % 60 < 30 \/ SpanOf < 60 * msPerSecond)
   /\ ((SpanOf \div msPerMinute) % 60 < 30 \/ SpanOf < 60 * msPerMinute)) =>
    result = FloorModString(SpanOf)

\* the documented span of 5 h 20 min 10.453 s has been formatted
C10_Witness ==
  /\ Done("timeSpanToString")
  /\ SpanOf = 5 * msPerHour + 20 * msPerMinute + 10 * msPerSecond + 453
  /\ result = <<"0", "5", ":", "2", "0", ":", "1", "0", ".", "4", "5", "3">>

====
